---- MODULE Spec2Model ----
(***************************************************************************)
(* License backend: the licenses table, the Stripe webhook handlers        *)
(* (routes/stripe-webhook.js), and the license routes (routes/license.js:  *)
(* validate, create-manual).                                               *)
(*                                                                         *)
(* Strings that the code takes apart (domains, e-mail addresses) are       *)
(* sequences of one-character strings; identifiers that the code only      *)
(* compares (keys, customer and subscription ids, plans) are strings.      *)
(* Timestamps are positive integers; a NULL timestamp is NullTime, the     *)
(* number JavaScript's relational comparison turns null into.  The columns *)
(* id, created_at and updated_at are written by the statements but read by *)
(* none of them; id is the row's position in the table (rows are never     *)
(* deleted), the other two are left out.                                   *)
(***************************************************************************)
EXTENDS Integers, Sequences, FiniteSets, TLC

VARIABLES licenses, now, customerIdUnique, req, reply, clients

vars == <<licenses, now, customerIdUnique, req, reply, clients>>

----------------------------------------------------------------------------
(* Bounds of the model *)

MaxTime == 2

MaxRows == 2

MaxUsage == 2

----------------------------------------------------------------------------
(* Values *)

NULL == "NULL"

NullTime == 0

MonthTicks == 1

Times == 1..MaxTime

\* The time by which a manual license created at the first tick has expired
MaxClock == MaxTime + MonthTicks

Slots == {"r1", "r2"}

\* The slots that serve requests while webhooks are delivered
MainSlots == {"r1"}

Keys == {"K1", "K2"}

Subscriptions == {"sub1", "sub2"}

\* Every Stripe subscription belongs to one customer.
SubscriptionCustomer(s) == IF s = "sub2" THEN "cus2" ELSE "cus1"

Prices == {"price_pro", "price_other"}

Str_unknown_com == <<"u","n","k","n","o","w","n",".","c","o","m">>

Str_b_com == <<"b",".","c","o","m">>

Str_x_io == <<"x",".","i","o">>

Str_email == <<"a","@","b",".","c","o","m">>

Emails == {Str_email}

MetadataDomains == {<<>>, Str_unknown_com}

ManualPlans == {"pro", "gold"}

RequestDomains == {<<>>, Str_b_com, Str_x_io}

RequestKeys == Keys \cup {NULL}

----------------------------------------------------------------------------
(* String helpers: JavaScript String methods on character sequences *)

LowerOf(c) ==
  CASE c = "A" -> "a" [] c = "B" -> "b" [] c = "C" -> "c" [] c = "M" -> "m"
    [] c = "O" -> "o" [] c = "W" -> "w" [] c = "H" -> "h" [] c = "T" -> "t"
    [] c = "P" -> "p" [] c = "S" -> "s" [] c = "X" -> "x" [] c = "I" -> "i"
    [] c = "U" -> "u" [] c = "N" -> "n" [] c = "K" -> "k"
    [] OTHER -> c

toLowerCase(s) == [i \in 1..Len(s) |-> LowerOf(s[i])]

startsWith(s, p) == Len(s) >= Len(p) /\ SubSeq(s, 1, Len(p)) = p

stripPrefix(s, p) == IF startsWith(s, p) THEN SubSeq(s, Len(p) + 1, Len(s)) ELSE s

includes(s, p) == \E i \in 0..(Len(s) - Len(p)) : SubSeq(s, i + 1, i + Len(p)) = p

IndexOf(s, c) ==
  IF \E i \in 1..Len(s) : s[i] = c
    THEN CHOOSE i \in 1..Len(s) : s[i] = c /\ \A j \in 1..(i - 1) : s[j] # c
    ELSE 0

\* s.split(c)[0]
splitFirst(s, c) == IF IndexOf(s, c) = 0 THEN s ELSE SubSeq(s, 1, IndexOf(s, c) - 1)

\* s.split(c)[1]; <<>> stands for undefined (no second part) and for ''
splitSecond(s, c) ==
  IF IndexOf(s, c) = 0 THEN <<>>
  ELSE splitFirst(SubSeq(s, IndexOf(s, c) + 1, Len(s)), c)

Str_http == <<"h","t","t","p",":","/","/">>

Str_https == <<"h","t","t","p","s",":","/","/">>

Str_www == <<"w","w","w",".">>

stripScheme(s) ==
  IF startsWith(s, Str_https) THEN stripPrefix(s, Str_https) ELSE stripPrefix(s, Str_http)

stripTrailingSlash(s) ==
  IF Len(s) > 0 /\ s[Len(s)] = "/" THEN SubSeq(s, 1, Len(s) - 1) ELSE s

normalizeDomain(domain) ==
  IF domain = <<>> THEN <<>>
  ELSE splitFirst(stripTrailingSlash(stripPrefix(stripScheme(toLowerCase(domain)), Str_www)), "/")

domainMatches(licensedDomain, domain) ==
  \/ normalizeDomain(licensedDomain) = normalizeDomain(domain)
  \/ licensedDomain = Str_unknown_com
  \/ includes(licensedDomain, normalizeDomain(domain))

extractDomainFromEmail(email) ==
  IF splitSecond(email, "@") = <<>> THEN Str_unknown_com ELSE splitSecond(email, "@")

\* The configured price table: process.env.STRIPE_PRICE_STARTER / _PRO / _ENTERPRISE
getPlanFromPriceId(priceId) ==
  CASE priceId = "price_starter" -> "starter"
    [] priceId = "price_pro" -> "pro"
    [] priceId = "price_enterprise" -> "enterprise"
    [] OTHER -> "starter"

----------------------------------------------------------------------------
(* The licenses table and the SQL statements the routes run on it *)

\* The values of an INSERT; id (SERIAL) is given by the table on insertion.
LicenseRow(key, customer, subscription, email, domain, plan, status, expires) ==
  [id |-> 0, license_key |-> key, customer_id |-> customer, subscription_id |-> subscription,
   email |-> email, domain |-> domain, plan |-> plan, status |-> status,
   expires_at |-> expires, last_used |-> NullTime, usage_count |-> 0]

Ids(rows) == 1..Len(rows)

\* license_key VARCHAR(50) UNIQUE NOT NULL
KeyTaken(rows, key, except) ==
  \E i \in Ids(rows) : i # except /\ rows[i].license_key = key

CustomerRow(rows, customer) ==
  IF \E i \in Ids(rows) : rows[i].customer_id = customer
    THEN CHOOSE i \in Ids(rows) : rows[i].customer_id = customer
    ELSE 0

\* Mutant of SqlEq: NULL is compared like a value (IS NOT DISTINCT FROM)
SqlEqNullMatches(column, param) == column = param

\* SQL equality: a NULL parameter or a NULL column matches nothing.
SqlEq(column, param) == column # NULL /\ param # NULL /\ column = param

\* INSERT INTO licenses ... VALUES (...): the result of the statement
InsertLicense(rows, row, uniqueCustomer) ==
  IF \/ KeyTaken(rows, row.license_key, 0)
     \/ uniqueCustomer /\ CustomerRow(rows, row.customer_id) # 0
    THEN [ok |-> FALSE, rows |-> rows]
    ELSE [ok |-> TRUE, rows |-> Append(rows, [row EXCEPT !.id = Len(rows) + 1])]

\* Mutant of UpsertByCustomer: a plain INSERT, no conflict target
UpsertAsInsert(rows, row, uniqueCustomer) ==
  IF KeyTaken(rows, row.license_key, 0)
    THEN [ok |-> FALSE, rows |-> rows]
    ELSE [ok |-> TRUE, rows |-> Append(rows, [row EXCEPT !.id = Len(rows) + 1])]

\* INSERT ... ON CONFLICT (customer_id) DO UPDATE SET license_key, subscription_id,
\* plan, status, expires_at, updated_at.  Postgres rejects the statement when no
\* unique index covers customer_id.
UpsertByCustomer(rows, row, uniqueCustomer) ==
  LET i == CustomerRow(rows, row.customer_id) IN
  IF ~uniqueCustomer THEN [ok |-> FALSE, rows |-> rows]
  ELSE IF i = 0 THEN InsertLicense(rows, row, uniqueCustomer)
  ELSE IF KeyTaken(rows, row.license_key, i) THEN [ok |-> FALSE, rows |-> rows]
  ELSE [ok |-> TRUE,
        rows |-> [rows EXCEPT ![i].license_key = row.license_key,
                              ![i].subscription_id = row.subscription_id,
                              ![i].plan = row.plan,
                              ![i].status = row.status,
                              ![i].expires_at = row.expires_at]]

\* Mutant of RenewBySubscription: the WHERE clause is missing
RenewAllRows(rows, subscription, expires) ==
  [i \in Ids(rows) |-> [rows[i] EXCEPT !.expires_at = expires, !.status = "active"]]

\* UPDATE licenses SET expires_at = $1, status = 'active', updated_at = NOW()
\* WHERE subscription_id = $2
RenewBySubscription(rows, subscription, expires) ==
  [i \in Ids(rows) |->
     IF SqlEq(rows[i].subscription_id, subscription)
       THEN [rows[i] EXCEPT !.expires_at = expires, !.status = "active"]
       ELSE rows[i]]

\* UPDATE licenses SET status = $status, updated_at = NOW() WHERE subscription_id = $1
SetStatusBySubscription(rows, subscription, status) ==
  [i \in Ids(rows) |->
     IF SqlEq(rows[i].subscription_id, subscription)
       THEN [rows[i] EXCEPT !.status = status]
       ELSE rows[i]]

\* Mutant of SelectActiveByKey: the status filter is missing
SelectAnyStatusByKey(rows, key) ==
  SelectSeq(rows, LAMBDA r : SqlEq(r.license_key, key))

\* SELECT * FROM licenses WHERE license_key = $1 AND status = 'active'
SelectActiveByKey(rows, key) ==
  SelectSeq(rows, LAMBDA r : SqlEq(r.license_key, key) /\ r.status = "active")

\* Mutant of MarkExpiredByKey: the status written is not 'expired'
MarkInactiveByKey(rows, key) ==
  [i \in Ids(rows) |->
     IF SqlEq(rows[i].license_key, key)
       THEN [rows[i] EXCEPT !.status = "payment_failed"]
       ELSE rows[i]]

\* UPDATE licenses SET status = 'expired', updated_at = NOW() WHERE license_key = $1
MarkExpiredByKey(rows, key) ==
  [i \in Ids(rows) |->
     IF SqlEq(rows[i].license_key, key)
       THEN [rows[i] EXCEPT !.status = "expired"]
       ELSE rows[i]]

\* UPDATE licenses SET last_used = NOW(), usage_count = usage_count + 1
\* WHERE license_key = $1
IncrementUsageByKey(rows, key, t) ==
  [i \in Ids(rows) |->
     IF SqlEq(rows[i].license_key, key)
       THEN [rows[i] EXCEPT !.last_used = t, !.usage_count = @ + 1]
       ELSE rows[i]]

----------------------------------------------------------------------------
(* State *)

\* A slot of the validate route.  While a request is served it holds the
\* handler's variables (licenseKey, domain, result.rows); once answered it holds
\* the key asked about and the response: the HTTP status, valid, error, and for
\* a valid response the row read, which the reported license is taken from.
IdleRequest ==
  [pc |-> "idle", licenseKey |-> NULL, domain |-> <<>>, rows |-> <<>>,
   status |-> 0, valid |-> FALSE, error |-> ""]

\* The last webhook delivery or manual creation: the route's operation, the
\* subscription the event names, the HTTP status of the response, and whether
\* a server the handler calls (Stripe, the pool, the database) refused the call.
NoReply == [op |-> "none", subscription |-> NULL, status |-> 0, fault |-> FALSE]

\* clients: the number of pool clients checked out and not yet released.
\* const client = await pool.connect()
connect(held) == held + 1

\* client.release()
release(held) == held - 1

\* Whether pool.connect() returned a client: it did unless the handler's
\* refused call was pool.connect() itself or a call before it
Connected(fault) == IF fault THEN BOOLEAN ELSE {TRUE}

\* Mutant of ConnectTryFinally: client.release() is the last statement of the
\* try block, so a failing query skips it
ReleaseAfterQuery(held, connected, failed) ==
  IF ~connected THEN held
  ELSE IF failed THEN connect(held)
  ELSE release(connect(held))

\* const client = await pool.connect();
\* try { await client.query(...) } finally { client.release() }
ConnectTryFinally(held, connected, failed) ==
  IF connected THEN release(connect(held)) ELSE held

\* The live licenses table is empty after setup.  setupDatabase creates it
\* without a unique index on customer_id, while handleSuccessfulPayment names
\* customer_id as its conflict target; CREATE TABLE IF NOT EXISTS leaves an
\* existing table as it is, so the live table has the index or not.
Init ==
  /\ licenses = <<>>
  /\ now = 1
  /\ customerIdUnique \in BOOLEAN
  /\ req = [r \in Slots |-> IdleRequest]
  /\ reply = NoReply
  /\ clients = 0

\* The clock advances, up to limit.
Tick(limit) ==
  /\ now < limit
  /\ now' = now + 1
  /\ UNCHANGED <<licenses, customerIdUnique, req, reply, clients>>

----------------------------------------------------------------------------
(* routes/stripe-webhook.js *)

\* Mutant of WebhookReply: the route acknowledges whatever the handler did
WebhookAlwaysReceived(op, subscription, ok, fault) ==
  [op |-> op, subscription |-> subscription, status |-> 200, fault |-> fault]

\* res.json({received: true}) or res.status(500).json({error: ...})
WebhookReply(op, subscription, ok, fault) ==
  [op |-> op, subscription |-> subscription, status |-> IF ok THEN 200 ELSE 500,
   fault |-> fault]

\* fault: a Stripe retrieve, pool.connect or the query is refused by its server.
handleSuccessfulPayment(subscription, price, periodEnd, email, metadataDomain, licenseKey, fault) ==
  LET customer == SubscriptionCustomer(subscription)
      domain == IF metadataDomain # <<>> THEN metadataDomain
                ELSE extractDomainFromEmail(email)
      plan == getPlanFromPriceId(price)
      row == LicenseRow(licenseKey, customer, subscription, email, domain, plan,
                        "active", periodEnd)
      res == IF fault THEN [ok |-> FALSE, rows |-> licenses]
             ELSE UpsertByCustomer(licenses, row, customerIdUnique)
  IN /\ Len(res.rows) <= MaxRows
     /\ licenses' = res.rows
     /\ reply' = WebhookReply("checkout.session.completed", subscription, res.ok, fault)
     /\ clients' \in {ConnectTryFinally(clients, c, ~res.ok) : c \in Connected(fault)}
     /\ UNCHANGED <<now, customerIdUnique, req>>

\* Mutant of handleSubscriptionRenewal: the renewal also resets the usage counter
RenewalResetsUsage(subscription, periodEnd, fault) ==
  /\ licenses' = IF fault THEN licenses
                 ELSE [i \in Ids(licenses) |->
                        IF SqlEq(licenses[i].subscription_id, subscription)
                          THEN [licenses[i] EXCEPT !.expires_at = periodEnd,
                                                   !.status = "active",
                                                   !.usage_count = 0]
                          ELSE licenses[i]]
  /\ reply' = WebhookReply("invoice.payment_succeeded", subscription, ~fault, fault)
  /\ clients' \in {ConnectTryFinally(clients, c, fault) : c \in Connected(fault)}
  /\ UNCHANGED <<now, customerIdUnique, req>>

handleSubscriptionRenewal(subscription, periodEnd, fault) ==
  /\ licenses' = IF fault THEN licenses
                 ELSE RenewBySubscription(licenses, subscription, periodEnd)
  /\ reply' = WebhookReply("invoice.payment_succeeded", subscription, ~fault, fault)
  /\ clients' \in {ConnectTryFinally(clients, c, fault) : c \in Connected(fault)}
  /\ UNCHANGED <<now, customerIdUnique, req>>

\* Mutant of handleSubscriptionCancellation: the rows are deleted
CancellationDeletesRows(subscription, fault) ==
  /\ licenses' = IF fault THEN licenses
                 ELSE SelectSeq(licenses, LAMBDA row : ~SqlEq(row.subscription_id, subscription))
  /\ reply' = WebhookReply("customer.subscription.deleted", subscription, ~fault, fault)
  /\ clients' \in {ConnectTryFinally(clients, c, fault) : c \in Connected(fault)}
  /\ UNCHANGED <<now, customerIdUnique, req>>

handleSubscriptionCancellation(subscription, fault) ==
  /\ licenses' = IF fault THEN licenses
                 ELSE SetStatusBySubscription(licenses, subscription, "cancelled")
  /\ reply' = WebhookReply("customer.subscription.deleted", subscription, ~fault, fault)
  /\ clients' \in {ConnectTryFinally(clients, c, fault) : c \in Connected(fault)}
  /\ UNCHANGED <<now, customerIdUnique, req>>

\* Mutant of handlePaymentFailure: the statement also clears expires_at
PaymentFailureClearsExpiry(subscription, fault) ==
  /\ licenses' = IF fault THEN licenses
                 ELSE [i \in Ids(licenses) |->
                        IF SqlEq(licenses[i].subscription_id, subscription)
                          THEN [licenses[i] EXCEPT !.status = "payment_failed",
                                                   !.expires_at = NullTime]
                          ELSE licenses[i]]
  /\ reply' = WebhookReply("invoice.payment_failed", subscription, ~fault, fault)
  /\ clients' \in {ConnectTryFinally(clients, c, fault) : c \in Connected(fault)}
  /\ UNCHANGED <<now, customerIdUnique, req>>

handlePaymentFailure(subscription, fault) ==
  /\ licenses' = IF fault THEN licenses
                 ELSE SetStatusBySubscription(licenses, subscription, "payment_failed")
  /\ reply' = WebhookReply("invoice.payment_failed", subscription, ~fault, fault)
  /\ clients' \in {ConnectTryFinally(clients, c, fault) : c \in Connected(fault)}
  /\ UNCHANGED <<now, customerIdUnique, req>>

\* Mutant of UnhandledEvent: the default branch throws, so the route answers 500
UnhandledEventRejected ==
  /\ reply' = WebhookReply("unhandled", NULL, FALSE, FALSE)
  /\ UNCHANGED <<licenses, now, customerIdUnique, req, clients>>

\* default: branch of the switch
UnhandledEvent ==
  /\ reply' = WebhookReply("unhandled", NULL, TRUE, FALSE)
  /\ UNCHANGED <<licenses, now, customerIdUnique, req, clients>>

\* router.post('/webhook'): the switch on event.type, for events about the
\* subscriptions subs paid at the prices prices
Webhook(subs, prices, metas) ==
  \/ \E s \in subs, p \in prices, t \in Times, e \in Emails,
        d \in metas, k \in Keys, f \in BOOLEAN :
       handleSuccessfulPayment(s, p, t, e, d, k, f)
  \/ \E s \in subs \cup {NULL}, t \in Times, f \in BOOLEAN :
       handleSubscriptionRenewal(s, t, f)
  \/ \E s \in subs \cup {NULL}, f \in BOOLEAN :
       handleSubscriptionCancellation(s, f)
  \/ \E s \in subs \cup {NULL}, f \in BOOLEAN :
       handlePaymentFailure(s, f)
  \/ UnhandledEvent

----------------------------------------------------------------------------
(* routes/license.js *)

InFlight == Cardinality({r \in Slots : req[r].pc \in {"select", "expire", "usage"}})

Response(licenseKey, status, valid, error) ==
  [IdleRequest EXCEPT !.pc = "done", !.licenseKey = licenseKey, !.status = status,
                      !.valid = valid, !.error = error]

Respond(r, status, valid, error) ==
  req' = [req EXCEPT ![r] = Response(req[r].licenseKey, status, valid, error)]

\* license.expires_at < new Date(): null compares as 0
ExpiredAt(expires, t) == expires < t

\* Mutant of ValidateCall: no required-field check; every request goes on to
\* pool.connect() and the SELECT
ValidateCallReadsFirst(r, licenseKey, domain, fault) ==
  /\ req[r].pc \in {"idle", "done"}
  /\ \A i \in Ids(licenses) : licenses[i].usage_count + InFlight < MaxUsage
  /\ req' = [req EXCEPT ![r] =
       IF fault THEN Response(licenseKey, 500, FALSE, "Internal server error")
       ELSE [IdleRequest EXCEPT !.pc = "select", !.licenseKey = licenseKey,
                                !.domain = domain]]
  /\ clients' = IF fault THEN clients ELSE connect(clients)
  /\ UNCHANGED <<licenses, now, customerIdUnique, reply>>

\* Request received: the two required-field checks, then pool.connect().
ValidateCall(r, licenseKey, domain, fault) ==
  /\ req[r].pc \in {"idle", "done"}
  /\ \A i \in Ids(licenses) : licenses[i].usage_count + InFlight < MaxUsage
  /\ req' = [req EXCEPT ![r] =
       IF licenseKey = NULL THEN Response(NULL, 400, FALSE, "License key is required")
       ELSE IF domain = <<>> THEN Response(licenseKey, 400, FALSE, "Domain is required")
       ELSE IF fault THEN Response(licenseKey, 500, FALSE, "Internal server error")
       ELSE [IdleRequest EXCEPT !.pc = "select", !.licenseKey = licenseKey,
                                !.domain = domain]]
  /\ clients' = IF licenseKey = NULL \/ domain = <<>> \/ fault THEN clients
                 ELSE connect(clients)
  /\ UNCHANGED <<licenses, now, customerIdUnique, reply>>

\* Mutant of ValidateSelect: the usage UPDATE runs before the domain check, so
\* a request from a foreign domain is counted and then refused
ValidateCountsBeforeDomainCheck(r, fault) ==
  LET rows == SelectActiveByKey(licenses, req[r].licenseKey) IN
  /\ req[r].pc = "select"
  /\ IF fault THEN Respond(r, 500, FALSE, "Internal server error") /\ UNCHANGED licenses
     ELSE IF Len(rows) = 0
       THEN Respond(r, 200, FALSE, "Invalid or inactive license key") /\ UNCHANGED licenses
     ELSE IF ExpiredAt(rows[1].expires_at, now)
       THEN req' = [req EXCEPT ![r].pc = "expire", ![r].rows = rows] /\ UNCHANGED licenses
     ELSE IF ~domainMatches(rows[1].domain, req[r].domain)
       THEN /\ Respond(r, 200, FALSE, "License not valid for domain")
            /\ licenses' = IncrementUsageByKey(licenses, req[r].licenseKey, now)
     ELSE req' = [req EXCEPT ![r].pc = "usage", ![r].rows = rows] /\ UNCHANGED licenses
  /\ clients' = IF req'[r].pc = "done" THEN release(clients) ELSE clients
  /\ UNCHANGED <<now, customerIdUnique, reply>>

\* The SELECT and what the handler decides from its result, up to the next query.
ValidateSelect(r, fault) ==
  LET rows == SelectActiveByKey(licenses, req[r].licenseKey) IN
  /\ req[r].pc = "select"
  /\ IF fault THEN Respond(r, 500, FALSE, "Internal server error")
     ELSE IF Len(rows) = 0 THEN Respond(r, 200, FALSE, "Invalid or inactive license key")
     ELSE IF ExpiredAt(rows[1].expires_at, now)
       THEN req' = [req EXCEPT ![r].pc = "expire", ![r].rows = rows]
     ELSE IF ~domainMatches(rows[1].domain, req[r].domain)
       THEN Respond(r, 200, FALSE, "License not valid for domain")
     ELSE req' = [req EXCEPT ![r].pc = "usage", ![r].rows = rows]
  /\ clients' = IF req'[r].pc = "done" THEN release(clients) ELSE clients
  /\ UNCHANGED <<licenses, now, customerIdUnique, reply>>

ValidateMarkExpired(r, fault) ==
  /\ req[r].pc = "expire"
  /\ IF fault
       THEN /\ Respond(r, 500, FALSE, "Internal server error")
            /\ UNCHANGED licenses
       ELSE /\ licenses' = MarkExpiredByKey(licenses, req[r].licenseKey)
            /\ Respond(r, 200, FALSE, "License has expired")
  /\ clients' = release(clients)
  /\ UNCHANGED <<now, customerIdUnique, reply>>

\* Mutant of ValidateUpdateUsage: the handler adds 1 to the usage_count it read
\* and writes the sum
ValidateWriteUsageRead(r, fault) ==
  /\ req[r].pc = "usage"
  /\ IF fault
       THEN /\ Respond(r, 500, FALSE, "Internal server error")
            /\ UNCHANGED licenses
       ELSE /\ licenses' = [i \in Ids(licenses) |->
                 IF SqlEq(licenses[i].license_key, req[r].licenseKey)
                   THEN [licenses[i] EXCEPT !.last_used = now,
                                            !.usage_count = req[r].rows[1].usage_count + 1]
                   ELSE licenses[i]]
            /\ req' = [req EXCEPT ![r] =
                 [Response(req[r].licenseKey, 200, TRUE, "") EXCEPT !.rows = req[r].rows]]
  /\ clients' = release(clients)
  /\ UNCHANGED <<now, customerIdUnique, reply>>

ValidateUpdateUsage(r, fault) ==
  /\ req[r].pc = "usage"
  /\ IF fault
       THEN /\ Respond(r, 500, FALSE, "Internal server error")
            /\ UNCHANGED licenses
       ELSE /\ licenses' = IncrementUsageByKey(licenses, req[r].licenseKey, now)
            /\ req' = [req EXCEPT ![r] =
                 [Response(req[r].licenseKey, 200, TRUE, "") EXCEPT !.rows = req[r].rows]]
  /\ clients' = release(clients)
  /\ UNCHANGED <<now, customerIdUnique, reply>>

\* router.post('/validate'), for requests about the keys keys from the domains
\* domains
Validate(slots, keys, domains) ==
  \/ \E r \in slots, k \in keys, d \in domains, f \in BOOLEAN :
       ValidateCall(r, k, d, f)
  \/ \E r \in slots, f \in BOOLEAN : ValidateSelect(r, f)
  \/ \E r \in slots, f \in BOOLEAN : ValidateMarkExpired(r, f)
  \/ \E r \in slots, f \in BOOLEAN : ValidateUpdateUsage(r, f)

\* customer_id of a manual license: `manual-${Date.now()}`
ManualCustomer(t) == "manual-" \o ToString(t)

CreateManual(email, domain, plan, licenseKey, fault) ==
  LET customer == ManualCustomer(now)
      row == LicenseRow(licenseKey, customer, NULL, email, domain, plan, "active",
                        now + MonthTicks)
      res == IF fault THEN [ok |-> FALSE, rows |-> licenses]
             ELSE InsertLicense(licenses, row, customerIdUnique)
  IN /\ Len(res.rows) <= MaxRows
     /\ licenses' = res.rows
     /\ reply' = [op |-> "create-manual", subscription |-> NULL,
                   status |-> IF res.ok THEN 200 ELSE 500, fault |-> fault]
     /\ clients' \in {ConnectTryFinally(clients, c, ~res.ok) : c \in Connected(fault)}
     /\ UNCHANGED <<now, customerIdUnique, req>>

Manual(domains, plans) ==
  \E e \in Emails, d \in domains, p \in plans, k \in Keys, f \in BOOLEAN :
    CreateManual(e, d, p, k, f)

\* SELECT ... FROM licenses WHERE license_key = $1 (any status)
SelectByKey(rows, key) == SelectSeq(rows, LAMBDA row : SqlEq(row.license_key, key))

\* router.get('/info/:licenseKey'): 200 with the row and its features, 404 when
\* no row has the key, 500 when the pool or the query is refused
Info(licenseKey, fault) ==
  /\ reply' = [op |-> "info", subscription |-> NULL,
               status |-> IF fault THEN 500
                          ELSE IF Len(SelectByKey(licenses, licenseKey)) = 0 THEN 404
                          ELSE 200,
               fault |-> fault]
  /\ clients' \in {ConnectTryFinally(clients, c, fault) : c \in Connected(fault)}
  /\ UNCHANGED <<licenses, now, customerIdUnique, req>>

\* router.get('/all'): 200 with the rows and their features, 500 on refusal
ListAll(fault) ==
  /\ reply' = [op |-> "all", subscription |-> NULL,
               status |-> IF fault THEN 500 ELSE 200, fault |-> fault]
  /\ clients' \in {ConnectTryFinally(clients, c, fault) : c \in Connected(fault)}
  /\ UNCHANGED <<licenses, now, customerIdUnique, req>>

----------------------------------------------------------------------------
(* Specifications *)

\* The license lifecycle: every webhook event and manual creation, no validation.
Next == Tick(MaxTime) \/ Webhook(Subscriptions, Prices, {<<>>}) \/ Manual({Str_b_com}, ManualPlans)

Spec == Init /\ [][Next]_vars

\* Validation by one request at a time, while the events of one subscription
\* are delivered.
NextValidate ==
  \/ Tick(MaxTime)
  \/ Webhook({"sub1"}, {"price_pro"}, MetadataDomains)
  \/ Validate(MainSlots, RequestKeys, RequestDomains)

SpecValidate == Init /\ [][NextValidate]_vars

\* Concurrent validation of manually created licenses, watched until the last
\* of them has expired.
NextConcurrent ==
  \/ Tick(MaxClock)
  \/ Manual({Str_b_com}, {"pro"})
  \/ Validate(Slots, {"K1"}, {Str_b_com, Str_x_io})

SpecConcurrent == Init /\ [][NextConcurrent]_vars

\* Domains as a caller of create-manual may store them, which stores req.body.domain as it is
Str_SUB_B_COM == <<"S","U","B",".","B",".","C","O","M">>

Str_https_www_b_com == <<"h","t","t","p","s",":","/","/","w","w","w",".","b",".","c","o","m","/">>

Str_www_b_com == <<"w","w","w",".","b",".","c","o","m">>

Str_www_www_b_com == <<"w","w","w",".","w","w","w",".","b",".","c","o","m">>

Str_B_COM_slash == <<"B",".","C","O","M","/">>

Str_www_label == <<"w","w","w">>

LicenseDomains ==
  {Str_b_com, Str_SUB_B_COM, Str_https_www_b_com, Str_www_b_com, Str_unknown_com}

Str_slash == <<"/">>

WideRequestDomains ==
  {Str_b_com, Str_x_io, Str_B_COM_slash, Str_www_label, Str_www_www_b_com,
   Str_slash, Str_www}

\* The domain check: one manually created license, stored under any of the
\* license domains, validated from any of the request domains.
NextDomain ==
  \/ Tick(MaxClock)
  \/ \E d \in LicenseDomains, f \in BOOLEAN : CreateManual(Str_email, d, "pro", "K1", f)
  \/ Validate(MainSlots, {"K1"}, WideRequestDomains)

SpecDomain == Init /\ [][NextDomain]_vars

\* Every operation on one customer's license and one manual license.
NextUsage ==
  \/ Tick(MaxTime)
  \/ Webhook({"sub1"}, {"price_pro"}, {<<>>})
  \/ \E f \in BOOLEAN : CreateManual(Str_email, Str_b_com, "pro", "K2", f)
  \/ Validate(MainSlots, {"K1"}, {Str_b_com})
  \/ \E k \in Keys, f \in BOOLEAN : Info(k, f)
  \/ \E f \in BOOLEAN : ListAll(f)

SpecUsage == Init /\ [][NextUsage]_vars

----------------------------------------------------------------------------
(* generateLicenseKey and getLicenseFeatures *)

UpperOf(c) ==
  CASE c = "a" -> "A" [] c = "b" -> "B" [] c = "c" -> "C" [] c = "d" -> "D"
    [] c = "e" -> "E" [] c = "f" -> "F" [] c = "g" -> "G" [] c = "h" -> "H"
    [] c = "i" -> "I" [] c = "j" -> "J" [] c = "k" -> "K" [] c = "l" -> "L"
    [] c = "m" -> "M" [] c = "n" -> "N" [] c = "o" -> "O" [] c = "p" -> "P"
    [] c = "q" -> "Q" [] c = "r" -> "R" [] c = "s" -> "S" [] c = "t" -> "T"
    [] c = "u" -> "U" [] c = "v" -> "V" [] c = "w" -> "W" [] c = "x" -> "X"
    [] c = "y" -> "Y" [] c = "z" -> "Z"
    [] OTHER -> c

toUpperCase(s) == [i \in 1..Len(s) |-> UpperOf(s[i])]

\* s.substr(start, length): at most length characters from index start (0-based)
substr(s, start, length) ==
  SubSeq(s, start + 1, IF Len(s) < start + length THEN Len(s) ELSE start + length)

\* Math.random().toString(36) for Math.random() = 0.123456789, 0.3141592653589793
\* and 0.5; the first two are cut after eight fraction digits
Rand_4fzz == <<"0",".","4","f","z","z","z","x","j","y">>

Rand_bb5e == <<"0",".","b","b","5","e","x","f","i","v">>

Rand_half == <<"0",".","i">>

\* One segment of a key
Segment(randomText) == toUpperCase(substr(randomText, 2, 4))

\* `EAA-${segments.join('-')}` for the four values Math.random() returned
generateLicenseKey(draws) ==
  <<"E","A","A">> \o <<"-">> \o Segment(draws[1]) \o <<"-">> \o Segment(draws[2])
     \o <<"-">> \o Segment(draws[3]) \o <<"-">> \o Segment(draws[4])

\* The values Math.random() returned when a key of Keys was generated
Draws(key) ==
  IF key = "K1" THEN <<Rand_4fzz, Rand_bb5e, Rand_bb5e, Rand_4fzz>>
  ELSE <<Rand_bb5e, Rand_half, Rand_4fzz, Rand_4fzz>>

\* The text of a key of Keys
KeyText(key) == generateLicenseKey(Draws(key))

\* The property names every object literal inherits from Object.prototype
ObjectPrototypeKeys ==
  {"constructor", "toString", "toLocaleString", "valueOf", "hasOwnProperty",
   "isPrototypeOf", "propertyIsEnumerable", "__proto__", "__defineGetter__",
   "__defineSetter__", "__lookupGetter__", "__lookupSetter__"}

\* features[plan] || features.starter: for an inherited property name the lookup
\* finds the member of Object.prototype, which is truthy and is returned as it is
getLicenseFeatures(plan) ==
  LET starter == [scanning |-> TRUE, basic_fixes |-> TRUE, advanced_fixes |-> FALSE,
                  widget |-> TRUE, max_scans_per_month |-> 100, max_websites |-> 1,
                  priority_support |-> FALSE, api_access |-> FALSE,
                  white_label |-> FALSE, detailed_reports |-> FALSE]
      pro == [scanning |-> TRUE, basic_fixes |-> TRUE, advanced_fixes |-> TRUE,
              widget |-> TRUE, max_scans_per_month |-> 500, max_websites |-> 3,
              priority_support |-> TRUE, api_access |-> FALSE,
              white_label |-> FALSE, detailed_reports |-> TRUE]
      enterprise == [scanning |-> TRUE, basic_fixes |-> TRUE, advanced_fixes |-> TRUE,
                     widget |-> TRUE, max_scans_per_month |-> -1, max_websites |-> -1,
                     priority_support |-> TRUE, api_access |-> TRUE,
                     white_label |-> TRUE, detailed_reports |-> TRUE]
  IN CASE plan = "starter" -> starter
       [] plan = "pro" -> pro
       [] plan = "enterprise" -> enterprise
       [] plan \in ObjectPrototypeKeys -> [inherited |-> plan]
       [] OTHER -> starter

\* features of the valid response a slot holds: getLicenseFeatures(license.plan)
ResponseFeatures(r) == getLicenseFeatures(req[r].rows[1].plan)

\* The keys of the features table and of the price table
KnownPlans == {"starter", "pro", "enterprise"}

PriceTable == {"price_starter", "price_pro", "price_enterprise"}

\* Plans a caller of create-manual may send, and price ids Stripe may send
WidePlans == KnownPlans \cup {"gold", "constructor"}

WidePrices == PriceTable \cup {"price_other"}

\* Plans and prices: a paid and a manual license of any plan, validated.
NextPlans ==
  \/ Tick(MaxClock)
  \/ \E p \in WidePlans, f \in BOOLEAN : CreateManual(Str_email, Str_b_com, p, "K2", f)
  \/ \E p \in WidePrices, f \in BOOLEAN :
       handleSuccessfulPayment("sub1", p, MaxTime, Str_email, <<>>, "K1", f)
  \/ Validate(MainSlots, {"K2"}, {Str_b_com})

SpecPlans == Init /\ [][NextPlans]_vars

\* A row the table admits and no route writes: expires_at TIMESTAMP is
\* nullable, and CREATE TABLE IF NOT EXISTS keeps the rows the table holds
LegacyRow ==
  [LicenseRow("K1", "cus1", "sub1", Str_email, Str_b_com, "pro", "active", NullTime)
     EXCEPT !.id = 1]

InitLegacy ==
  /\ licenses = <<LegacyRow>>
  /\ now = 1
  /\ customerIdUnique \in BOOLEAN
  /\ req = [r \in Slots |-> IdleRequest]
  /\ reply = NoReply
  /\ clients = 0

\* A table that holds a license without expiry: validate and renewals of it.
NextLegacy ==
  \/ Tick(MaxTime)
  \/ \E t \in Times, f \in BOOLEAN : handleSubscriptionRenewal("sub1", t, f)
  \/ Validate(MainSlots, {"K1"}, {Str_b_com, Str_x_io})

SpecLegacy == InitLegacy /\ [][NextLegacy]_vars

----------------------------------------------------------------------------
(* Claims *)

\* The rows of the table a key names
RowsOfKey(rows, key) == {i \in Ids(rows) : rows[i].license_key = key}

\* Slot r takes the step of the validate handler that leaves pc
Leaves(r, pc) == req[r].pc = pc /\ req'[r].pc # pc

\* C1: validate answers valid only if the License it read under that key was
\* active, its expiresAt was not in the past and the domain check accepted it;
\* when the License under that key is cancelled, expired or payment_failed, the
\* answer is the not-found/inactive one whatever its expiresAt is.
C1_ValidOnlyIfActive ==
  [][\A r \in Slots :
       /\ (~req[r].valid /\ req'[r].valid) => req[r].pc = "usage"
       /\ (Leaves(r, "select") /\ req'[r].pc = "usage") =>
            \E i \in RowsOfKey(licenses, req[r].licenseKey) :
              /\ licenses[i].status = "active"
              /\ licenses[i].expires_at >= now
              /\ domainMatches(licenses[i].domain, req[r].domain)
              /\ req'[r].rows = <<licenses[i]>>
       /\ (/\ Leaves(r, "select")
           /\ \A i \in RowsOfKey(licenses, req[r].licenseKey) :
                licenses[i].status # "active") =>
            /\ req'[r].pc = "done"
            /\ ~req'[r].valid
            /\ req'[r].error \in {"Invalid or inactive license key", "Internal server error"}
            /\ licenses' = licenses
    ]_vars

\* C1 witness: a request was answered not-found/inactive for the key of a
\* License that had been validated before (its usageCount is positive) and is
\* now cancelled with an expiresAt still in the future.
C1_Witness ==
  \E r \in Slots, i \in Ids(licenses) :
    /\ req[r].pc = "done"
    /\ req[r].error = "Invalid or inactive license key"
    /\ licenses[i].license_key = req[r].licenseKey
    /\ licenses[i].status = "cancelled"
    /\ licenses[i].expires_at > now
    /\ licenses[i].usage_count > 0


\* C2: a validate call that reads an active License whose expiresAt is in the
\* past goes on to write status = expired on the License under that key,
\* changing nothing else, and answers expired; a validate call that finds the
\* License under its key expired answers not-found/inactive and writes nothing;
\* so usageCount is changed by neither call.
C2_ExpiredThenInactive ==
  [][\A r \in Slots :
       LET live == RowsOfKey(licenses, req[r].licenseKey) IN
       /\ (Leaves(r, "select") /\ \E i \in live :
              licenses[i].status = "active" /\ licenses[i].expires_at < now) =>
            /\ req'[r].pc = "expire" \/ req'[r].status = 500
            /\ licenses' = licenses
       /\ Leaves(r, "expire") =>
            \/ req'[r].status = 500 /\ licenses' = licenses
            \/ /\ req'[r].status = 200
               /\ ~req'[r].valid
               /\ req'[r].error = "License has expired"
               /\ licenses' = [i \in Ids(licenses) |->
                     IF i \in live THEN [licenses[i] EXCEPT !.status = "expired"]
                     ELSE licenses[i]]
       /\ (Leaves(r, "select") /\ \E i \in live : licenses[i].status = "expired") =>
            /\ req'[r].pc = "done"
            /\ ~req'[r].valid
            /\ req'[r].error \in {"Invalid or inactive license key", "Internal server error"}
            /\ licenses' = licenses
    ]_vars

\* C2 witness: the second call has been answered not-found/inactive for a License
\* that a first call turned to expired, and its usageCount is still 0.
C2_Witness ==
  \E r \in Slots, i \in Ids(licenses) :
    /\ req[r].pc = "done"
    /\ req[r].error = "Invalid or inactive license key"
    /\ licenses[i].license_key = req[r].licenseKey
    /\ licenses[i].status = "expired"
    /\ licenses[i].expires_at < now
    /\ licenses[i].usage_count = 0

\* C3 as claimed: every validate call that answers valid has raised the
\* usageCount of the License it read by exactly 1 and set its lastUsedAt to the
\* time of the write, changing no other field and no other License.
C3_ValidIncrementsUsage ==
  [][\A r \in Slots :
       (req[r].pc = "usage" /\ req'[r].valid) =>
         LET id == req[r].rows[1].id IN
         licenses' = [licenses EXCEPT ![id].usage_count = @ + 1, ![id].last_used = now]
    ]_vars


\* The rows of the table that carry a subscription reference
RowsOfSubscription(rows, subscription) ==
  {i \in Ids(rows) : subscription # NULL /\ rows[i].subscription_id = subscription}

\* C4 as claimed, its first half: once a successful-payment event has been
\* applied by a delivery that no server refused (and so also after the same
\* event has been applied again, which leaves the same state), there is exactly
\* one License row for its subscription.
C4_OneRowAfterPayment ==
  (reply.op = "checkout.session.completed" /\ ~reply.fault) =>
    Cardinality(RowsOfSubscription(licenses, reply.subscription)) = 1

\* C5 as claimed: no step changes the key of an existing License.
C5_KeyNeverChanges ==
  [][\A i \in Ids(licenses) :
       i \in Ids(licenses') /\ licenses'[i].license_key = licenses[i].license_key
    ]_vars

\* C6 as claimed: when a successful-payment event for subscription s of
\* customer c, price p and period end t has been handled and no server refused a
\* call, exactly one License of c exists; it has subscriptionRef s, the plan
\* mapped from p, status active and expiresAt t; and a License of c that existed
\* before keeps its email, domain, usageCount and lastUsedAt; every other
\* License is unchanged.
C6_PaymentUpsert ==
  [][(reply'.op = "checkout.session.completed" /\ ~reply'.fault) =>
       \A p \in Prices, t \in Times, e \in Emails, d \in MetadataDomains, k \in Keys :
         handleSuccessfulPayment(reply'.subscription, p, t, e, d, k, FALSE) =>
           LET c == SubscriptionCustomer(reply'.subscription)
               old == {i \in Ids(licenses) : licenses[i].customer_id = c}
               new == {i \in Ids(licenses') : licenses'[i].customer_id = c}
           IN /\ Cardinality(new) = 1
              /\ old \subseteq new
              /\ \A i \in new :
                   /\ licenses'[i].subscription_id = reply'.subscription
                   /\ licenses'[i].plan = getPlanFromPriceId(p)
                   /\ licenses'[i].status = "active"
                   /\ licenses'[i].expires_at = t
              /\ \A i \in old :
                   /\ licenses'[i].email = licenses[i].email
                   /\ licenses'[i].domain = licenses[i].domain
                   /\ licenses'[i].usage_count = licenses[i].usage_count
                   /\ licenses'[i].last_used = licenses[i].last_used
              /\ \A i \in Ids(licenses) \ old : licenses'[i] = licenses[i]
    ]_vars

\* C7: no two License rows carry the same subscriptionRef.
C7_SubscriptionUnique ==
  \A i, j \in Ids(licenses) :
    (i # j /\ licenses[i].subscription_id # NULL) =>
      licenses[i].subscription_id # licenses[j].subscription_id

\* C7 witness: a successful payment was applied for one subscription while the
\* License of another subscription, no longer active, is stored beside it.
C7_Witness ==
  /\ reply.op = "checkout.session.completed"
  /\ reply.status = 200
  /\ \E i, j \in Ids(licenses) :
       /\ i # j
       /\ licenses[i].subscription_id = reply.subscription
       /\ licenses[j].subscription_id # NULL
       /\ licenses[j].status # "active"


\* The slots whose request was answered valid after it read row i with
\* usage_count u
ValidAnswers(i, u) ==
  {r \in Slots : /\ req[r].valid
                 /\ req[r].rows[1].id = i
                 /\ req[r].rows[1].usage_count = u}

\* C8: when N validate calls that read the same License at the same usageCount u
\* have all answered valid, its usageCount is at least u + N, and each of their
\* writes raised the stored usageCount by exactly 1: no increment is lost,
\* whatever the order of their reads and writes.
C8_NoLostUpdate ==
  /\ [](\A i \in Ids(licenses), u \in 0..MaxUsage :
          ValidAnswers(i, u) # {} =>
            licenses[i].usage_count >= u + Cardinality(ValidAnswers(i, u)))
  /\ [][\A r \in Slots :
          (req[r].pc = "usage" /\ req'[r].valid) =>
            \A i \in RowsOfKey(licenses, req[r].licenseKey) :
              licenses'[i].usage_count = licenses[i].usage_count + 1
       ]_vars

\* C8 witness: two calls read the same License at the same usageCount, both
\* answered valid, and the usageCount is 2 higher.
C8_Witness ==
  \E i \in Ids(licenses), u \in 0..MaxUsage :
    /\ ValidAnswers(i, u) = Slots
    /\ licenses[i].usage_count = u + Cardinality(Slots)


\* C9: a renewal event for subscription s with period end t that no server
\* refuses is answered as received, sets every License with subscriptionRef s to
\* status active and expiresAt t, and changes nothing else: no other field, no
\* other License, no new row; with no License for s nothing changes at all.
C9_Renewal ==
  [][reply'.op = "invoice.payment_succeeded" =>
       \A t \in Times :
         handleSubscriptionRenewal(reply'.subscription, t, FALSE) =>
           /\ reply'.status = 200
           /\ licenses' = [i \in Ids(licenses) |->
                 IF i \in RowsOfSubscription(licenses, reply'.subscription)
                   THEN [licenses[i] EXCEPT !.status = "active", !.expires_at = t]
                   ELSE licenses[i]]
    ]_vars

\* C9 witness: a renewal was received for the subscription of a License, which
\* is active, while the License of another subscription is still cancelled.
C9_Witness ==
  /\ reply.op = "invoice.payment_succeeded"
  /\ reply.status = 200
  /\ \E i, j \in Ids(licenses) :
       /\ licenses[i].subscription_id = reply.subscription
       /\ licenses[i].status = "active"
       /\ licenses[j].subscription_id \notin {NULL, reply.subscription}
       /\ licenses[j].status = "cancelled"

\* C10: a cancellation event for subscription s that no server refuses is
\* answered as received, sets the License with subscriptionRef s to status
\* cancelled, and keeps every row and every other field; with no License for s
\* nothing changes at all.
C10_Cancellation ==
  [][reply'.op = "customer.subscription.deleted" =>
       (handleSubscriptionCancellation(reply'.subscription, FALSE) =>
          /\ reply'.status = 200
          /\ licenses' = [i \in Ids(licenses) |->
                IF i \in RowsOfSubscription(licenses, reply'.subscription)
                  THEN [licenses[i] EXCEPT !.status = "cancelled"]
                  ELSE licenses[i]])
    ]_vars

\* C10 witness: a cancellation was received for the subscription of a License
\* that had been used; the License is stored as cancelled with its usageCount
\* and its expiresAt, which is still in the future.
C10_Witness ==
  /\ reply.op = "customer.subscription.deleted"
  /\ reply.status = 200
  /\ \E i \in Ids(licenses) :
       /\ licenses[i].subscription_id = reply.subscription
       /\ licenses[i].status = "cancelled"
       /\ licenses[i].usage_count > 0
       /\ licenses[i].expires_at > now

\* C11: a payment-failure event for subscription s that no server refuses sets
\* the License with subscriptionRef s to status payment_failed and changes no
\* other field (expiresAt included) and no other License; a validate call that
\* then reads the key of a License in status payment_failed is answered
\* not-found/inactive and writes nothing, whatever its expiresAt is.
C11_PaymentFailure ==
  [][/\ reply'.op = "invoice.payment_failed" =>
          (handlePaymentFailure(reply'.subscription, FALSE) =>
             /\ reply'.status = 200
             /\ licenses' = [i \in Ids(licenses) |->
                   IF i \in RowsOfSubscription(licenses, reply'.subscription)
                     THEN [licenses[i] EXCEPT !.status = "payment_failed"]
                     ELSE licenses[i]])
     /\ \A r \in Slots :
          (/\ Leaves(r, "select")
           /\ RowsOfKey(licenses, req[r].licenseKey) # {}
           /\ \A i \in RowsOfKey(licenses, req[r].licenseKey) :
                licenses[i].status = "payment_failed") =>
            /\ req'[r].pc = "done"
            /\ ~req'[r].valid
            /\ req'[r].status \in {200, 500}
            /\ req'[r].error \in {"Invalid or inactive license key", "Internal server error"}
            /\ licenses' = licenses
    ]_vars

\* C11 witness: after a payment-failure event a validate call for the key of the
\* License of that subscription was answered not-found/inactive; the License is
\* payment_failed, its expiresAt is still in the future and it had been used.
C11_Witness ==
  /\ reply.op = "invoice.payment_failed"
  /\ reply.status = 200
  /\ \E r \in Slots, i \in Ids(licenses) :
       /\ req[r].pc = "done"
       /\ req[r].error = "Invalid or inactive license key"
       /\ licenses[i].license_key = req[r].licenseKey
       /\ licenses[i].subscription_id = reply.subscription
       /\ licenses[i].status = "payment_failed"
       /\ licenses[i].expires_at > now
       /\ licenses[i].usage_count > 0

\* The event types the webhook route dispatches to a handler
HandledEvents ==
  {"checkout.session.completed", "invoice.payment_succeeded",
   "customer.subscription.deleted", "invoice.payment_failed"}

\* The upsert of a successful-payment event succeeds on the table and leads to
\* the table rows
UpsertApplied(subscription, rows) ==
  \E p \in Prices, t \in Times, e \in Emails, d \in MetadataDomains, k \in Keys :
    LET domain == IF d # <<>> THEN d ELSE extractDomainFromEmail(e)
        res == UpsertByCustomer(licenses,
                 LicenseRow(k, SubscriptionCustomer(subscription), subscription, e,
                            domain, getPlanFromPriceId(p), "active", t),
                 customerIdUnique)
    IN res.ok /\ rows = res.rows

\* C12: the webhook route answers a dispatched event with 200 (received) or 500
\* (processing failed); when a server refused a call of the handler, or the
\* handler's statement was rejected by the table, the answer is 500 and the table
\* is unchanged; the answer is 200 only when no call was refused and, for a
\* successful payment, the upsert succeeded.
C12_WebhookFailure ==
  [][reply'.op \in HandledEvents =>
       /\ reply'.status \in {200, 500}
       /\ reply'.fault => reply'.status = 500
       /\ reply'.status = 500 => licenses' = licenses
       /\ reply'.status = 200 =>
            /\ ~reply'.fault
            /\ reply'.op = "checkout.session.completed" =>
                 UpsertApplied(reply'.subscription, licenses')
    ]_vars

\* C12 witness: a renewal for the subscription of a stored License was refused
\* by the database and answered 500; the License is as it was, not renewed.
C12_Witness ==
  /\ reply.op = "invoice.payment_succeeded"
  /\ reply.fault
  /\ reply.status = 500
  /\ \E i \in Ids(licenses) :
       /\ licenses[i].subscription_id = reply.subscription
       /\ licenses[i].status = "cancelled"

\* The answers of validate that report neither an expired nor a valid License
QuietErrors ==
  {"License key is required", "Domain is required", "Invalid or inactive license key",
   "License not valid for domain", "Internal server error"}

\* C14: a step of a validate call changes the table only when it is the call's
\* last step and answers expired (then only status changes, on the rows under
\* the key) or valid (then only usageCount and lastUsedAt change, on the rows
\* under the key); a call answered with a caller error, not-found/inactive,
\* domain mismatch or an internal error has changed nothing in any of its steps;
\* and a call runs the status write or the usage write, never both.
C14_ValidateFrame ==
  [][\A r \in Slots :
       LET live == RowsOfKey(licenses, req[r].licenseKey) IN
       /\ (req'[r] # req[r] /\ req'[r].pc # "done") =>
            /\ licenses' = licenses
            /\ req[r].pc \in {"idle", "done", "select"}
            /\ req'[r].pc \in {"select", "expire", "usage"}
       /\ (req'[r] # req[r] /\ req'[r].pc = "done" /\ req'[r].error \in QuietErrors) =>
            /\ licenses' = licenses
            /\ ~req'[r].valid
       /\ (req'[r] # req[r] /\ req'[r].pc = "done" /\ req'[r].error = "License has expired") =>
            /\ req[r].pc = "expire"
            /\ licenses' = [i \in Ids(licenses) |->
                  IF i \in live THEN [licenses[i] EXCEPT !.status = "expired"]
                  ELSE licenses[i]]
       /\ (req'[r] # req[r] /\ req'[r].valid) =>
            /\ req[r].pc = "usage"
            /\ licenses' = [i \in Ids(licenses) |->
                  IF i \in live
                    THEN [licenses[i] EXCEPT !.usage_count = @ + 1, !.last_used = now]
                  ELSE licenses[i]]
       /\ (req'[r] # req[r] /\ req'[r].pc = "done") =>
            req'[r].valid \/ req'[r].error \in QuietErrors \cup {"License has expired"}
    ]_vars

\* C14 witness: a call from a foreign domain was refused for a License that is
\* active, unexpired and had been validated once; its usageCount is still 1.
C14_Witness ==
  \E r \in Slots, i \in Ids(licenses) :
    /\ req[r].pc = "done"
    /\ req[r].error = "License not valid for domain"
    /\ licenses[i].license_key = req[r].licenseKey
    /\ licenses[i].status = "active"
    /\ licenses[i].expires_at >= now
    /\ licenses[i].usage_count = 1

\* The domain check as C15 states it
ClaimedDomainMatch(l, r) ==
  \/ normalizeDomain(l) = normalizeDomain(r)
  \/ l = Str_unknown_com
  \/ includes(normalizeDomain(l), normalizeDomain(r))

\* C15 as claimed: a validate call that read an active, unexpired License with
\* domain l for request domain r passes the domain check exactly when
\* normalize(l) = normalize(r), or l is "unknown.com", or normalize(l) contains
\* normalize(r).
C15_DomainCheckAsClaimed ==
  [][\A r \in Slots :
       (/\ Leaves(r, "select")
        /\ req'[r].error # "Internal server error"
        /\ req'[r].pc # "expire") =>
         \A i \in RowsOfKey(licenses, req[r].licenseKey) :
           licenses[i].status = "active" =>
             (req'[r].pc = "usage" <=>
                ClaimedDomainMatch(licenses[i].domain, req[r].domain))
    ]_vars

\* C16 as claimed: normalizing the request domain a second time changes nothing.
C16_NormalizeIdempotent ==
  \A r \in Slots :
    req[r].pc = "select" =>
      normalizeDomain(normalizeDomain(req[r].domain)) = normalizeDomain(req[r].domain)

\* The characters of a key segment
UpperAlnum ==
  {"A","B","C","D","E","F","G","H","I","J","K","L","M","N","O","P","Q","R","S","T",
   "U","V","W","X","Y","Z","0","1","2","3","4","5","6","7","8","9"}

\* EAA-XXXX-XXXX-XXXX-XXXX
KeyFormatOK(text) ==
  /\ Len(text) = 23
  /\ SubSeq(text, 1, 3) = <<"E","A","A">>
  /\ \A i \in 4..23 :
       IF (i - 4) % 5 = 0 THEN text[i] = "-" ELSE text[i] \in UpperAlnum

\* C17 as claimed: manual creation with email e, domain d and plan p appends one
\* License with these values, status active, a key in the generator format and
\* an expiresAt in the future, leaving the other Licenses as they are; a validate
\* call for its key from d that reads it before any time has passed passes the
\* checks, and unless the database refuses the usage write it answers valid
\* with the feature set of p, where advanced_fixes is true when p is pro.
C17_ManualThenValid ==
  [][/\ (reply'.op = "create-manual" /\ reply'.status = 200 /\ licenses' # licenses) =>
          \A e \in Emails, d \in LicenseDomains, p \in ManualPlans, k \in Keys :
            CreateManual(e, d, p, k, FALSE) =>
              LET row == licenses'[Len(licenses')] IN
              /\ Len(licenses') = Len(licenses) + 1
              /\ SubSeq(licenses', 1, Len(licenses)) = licenses
              /\ row.email = e /\ row.domain = d /\ row.plan = p
              /\ row.status = "active"
              /\ row.expires_at > now
              /\ row.usage_count = 0
              /\ row.license_key = k
              /\ KeyFormatOK(KeyText(k))
     /\ \A r \in Slots :
          /\ (Leaves(r, "select") /\ req'[r].status # 500) =>
               \A i \in RowsOfKey(licenses, req[r].licenseKey) :
                 (/\ licenses[i].subscription_id = NULL
                  /\ licenses[i].status = "active"
                  /\ licenses[i].expires_at = now + MonthTicks
                  /\ licenses[i].domain = req[r].domain) =>
                   /\ req'[r].pc = "usage"
                   /\ req'[r].rows = <<licenses[i]>>
          /\ (Leaves(r, "usage") /\ req'[r].status # 500) =>
               /\ req'[r].valid
               /\ req'[r].status = 200
               /\ ResponseFeatures(r)' = getLicenseFeatures(req[r].rows[1].plan)
               /\ req[r].rows[1].plan = "pro" => ResponseFeatures(r)'.advanced_fixes
    ]_vars

\* C20 as claimed: the key of every stored License, as the generator wrote it,
\* is EAA followed by four hyphen-separated segments of four characters A-Z, 0-9.
C20_KeyFormat ==
  \A i \in Ids(licenses) : KeyFormatOK(KeyText(licenses[i].license_key))

\* C18: no step removes a License or lowers its usageCount; a step changes the
\* usageCount or lastUsedAt of a License only when it is the usage write of a
\* validate call for its key that answers valid, and then usageCount rises by
\* exactly 1; a License that a step creates starts with usageCount 0 and no
\* lastUsedAt.
C18_UsageOnlyByValidate ==
  [][/\ Len(licenses') >= Len(licenses)
     /\ \A i \in Ids(licenses) :
          /\ licenses'[i].usage_count >= licenses[i].usage_count
          /\ (\/ licenses'[i].usage_count # licenses[i].usage_count
              \/ licenses'[i].last_used # licenses[i].last_used) =>
               \E r \in Slots :
                 /\ req[r].pc = "usage"
                 /\ req'[r].valid
                 /\ req[r].licenseKey = licenses[i].license_key
                 /\ licenses'[i].usage_count = licenses[i].usage_count + 1
     /\ \A i \in Ids(licenses') \ Ids(licenses) :
          licenses'[i].usage_count = 0 /\ licenses'[i].last_used = NullTime
    ]_vars

\* C18 witness: a renewal was applied to a License that had been validated; its
\* usageCount and lastUsedAt are still those of the validation.
C18_Witness ==
  /\ reply.op = "invoice.payment_succeeded"
  /\ reply.status = 200
  /\ \E i \in Ids(licenses) :
       /\ licenses[i].subscription_id = reply.subscription
       /\ licenses[i].usage_count > 0
       /\ licenses[i].last_used > NullTime
       /\ licenses[i].expires_at > licenses[i].last_used

\* C19 as claimed: a manual creation or a successful-payment event whose
\* generated key is the key of another License, and whose calls no server
\* refuses, still succeeds: it is answered 200, the License it is for is stored,
\* and the Licenses that existed keep their rows (on conflict, all but the
\* customer's own).
C19_CollisionRetried ==
  [][/\ (reply'.op = "create-manual" /\ ~reply'.fault) =>
          \A e \in Emails, d \in LicenseDomains, p \in ManualPlans, k \in Keys :
            (CreateManual(e, d, p, k, FALSE) /\ KeyTaken(licenses, k, 0)) =>
              /\ reply'.status = 200
              /\ Len(licenses') = Len(licenses) + 1
              /\ SubSeq(licenses', 1, Len(licenses)) = licenses
     /\ (reply'.op = "checkout.session.completed" /\ ~reply'.fault /\ customerIdUnique) =>
          \A p \in Prices, t \in Times, e \in Emails, d \in MetadataDomains, k \in Keys :
            LET own == CustomerRow(licenses, SubscriptionCustomer(reply'.subscription)) IN
            (/\ handleSuccessfulPayment(reply'.subscription, p, t, e, d, k, FALSE)
             /\ KeyTaken(licenses, k, own)) =>
              /\ reply'.status = 200
              /\ CustomerRow(licenses', SubscriptionCustomer(reply'.subscription)) # 0
              /\ \A i \in Ids(licenses) \ {own} : licenses'[i] = licenses[i]
    ]_vars

\* C21 as claimed: for the plan of every stored License and of every valid
\* answer, when it is none of starter, pro, enterprise the feature lookup gives
\* exactly the starter feature set; and a successful payment at a price outside
\* the price table stores the plan starter.
C21_UnknownFallsBack ==
  [][/\ \A i \in Ids(licenses') :
          licenses'[i].plan \notin KnownPlans =>
            getLicenseFeatures(licenses'[i].plan) = getLicenseFeatures("starter")
     /\ \A r \in Slots :
          (req'[r].valid /\ req'[r].rows[1].plan \notin KnownPlans) =>
            ResponseFeatures(r)' = getLicenseFeatures("starter")
     /\ (reply'.op = "checkout.session.completed" /\ reply'.status = 200) =>
          \A p \in WidePrices \ PriceTable, t \in Times, e \in Emails,
             d \in MetadataDomains, k \in Keys :
            handleSuccessfulPayment(reply'.subscription, p, t, e, d, k, FALSE) =>
              \A i \in RowsOfSubscription(licenses', reply'.subscription) :
                licenses'[i].plan = "starter"
    ]_vars

\* The error texts of the license-invalid answers of validate
InvalidErrors ==
  {"Invalid or inactive license key", "License has expired",
   "License not valid for domain"}

\* C22: a validate request without a key or without a domain is answered at the
\* call itself, before a connection is taken or a License is read and whether
\* or not the storage is reachable, with status 400 and an error text that no
\* license-invalid answer carries; no License changes; and every
\* license-invalid answer has status 200 and one of the license-invalid texts.
C22_CallerError ==
  [][\A r \in Slots :
       /\ \A k \in RequestKeys, d \in RequestDomains, f \in BOOLEAN :
            ((k = NULL \/ d = <<>>) /\ ValidateCall(r, k, d, f)) =>
              /\ req'[r].pc = "done"
              /\ req'[r].status = 400
              /\ ~req'[r].valid
              /\ req'[r].rows = <<>>
              /\ req'[r].error =
                   (IF k = NULL THEN "License key is required" ELSE "Domain is required")
              /\ req'[r].error \notin InvalidErrors
              /\ licenses' = licenses
       /\ (req'[r].pc = "done" /\ req'[r].status = 200 /\ ~req'[r].valid) =>
            req'[r].error \in InvalidErrors
       /\ (req'[r].pc = "done" /\ req'[r].error \in InvalidErrors) =>
            req'[r].status = 200
    ]_vars

\* A request without a domain was answered 400 while an active License is
\* stored under its key
C22_Witness ==
  \E r \in Slots :
    /\ req[r].pc = "done" /\ req[r].status = 400
    /\ req[r].error = "Domain is required"
    /\ \E i \in RowsOfKey(licenses, req[r].licenseKey) : licenses[i].status = "active"

\* C23: the delivery of an event of any other type leaves the licenses table
\* as it was (no License changed, none created) and is answered 200 received.
C23_UnhandledEvent ==
  [][(reply'.op = "unhandled" /\ reply' # reply) =>
       /\ licenses' = licenses
       /\ reply'.status = 200
       /\ ~reply'.fault
    ]_vars

\* An event of another type was acknowledged while Licenses are stored
C23_Witness == reply.op = "unhandled" /\ reply.status = 200 /\ Len(licenses) > 0

\* C24 as claimed: a renewal event applied to a License whose subscription was
\* cancelled leaves it not active, and a renewal event never moves the expiresAt
\* of a License to an earlier time.
C24_RenewalOutOfOrder ==
  [][reply'.op = "invoice.payment_succeeded" =>
       \A t \in Times :
         handleSubscriptionRenewal(reply'.subscription, t, FALSE) =>
           \A i \in RowsOfSubscription(licenses, reply'.subscription) :
             /\ licenses[i].status = "cancelled" => licenses'[i].status # "active"
             /\ licenses'[i].expires_at >= licenses[i].expires_at
    ]_vars

\* C25 as claimed: the expiry write of validate sets status expired only on a
\* License that at the moment of the write is active with expiresAt in the
\* past, whatever events were applied since the call read it; so no License is
\* expired with an expiresAt that is not in the past, and no cancelled License
\* becomes expired.
C25_ExpiryWriteGuarded ==
  [][\A r \in Slots :
       Leaves(r, "expire") =>
         \A i \in Ids(licenses) :
           (licenses'[i].status = "expired" /\ SqlEq(licenses[i].license_key, req[r].licenseKey)) =>
             /\ licenses[i].status \in {"active", "expired"}
             /\ ExpiredAt(licenses'[i].expires_at, now)
    ]_vars

C27_EmptyNormalizedDomain ==
  [][\A r \in Slots :
       (/\ Leaves(r, "usage")
        /\ req[r].domain # <<>>
        /\ normalizeDomain(req[r].domain) = <<>>
        /\ req[r].rows[1].domain # Str_unknown_com) =>
         /\ ~req'[r].valid
         /\ \A i \in Ids(licenses) : licenses'[i].usage_count = licenses[i].usage_count
    ]_vars

\* C28 as claimed: the plan of every stored License is starter, pro or
\* enterprise.
C28_PlanClosed == \A i \in Ids(licenses) : licenses[i].plan \in KnownPlans

\* The events that name the subscription of an existing License
SubscriptionEvents ==
  {"invoice.payment_succeeded", "customer.subscription.deleted", "invoice.payment_failed"}

\* C29: a renewal, cancellation or payment-failure event without a subscription
\* reference leaves the licenses table as it was; and under every renewal,
\* cancellation or payment-failure event the Licenses without subscriptionRef
\* (the manually created ones) stay as they were.
C29_AbsentSubscription ==
  [][reply'.op \in SubscriptionEvents =>
       /\ reply'.subscription = NULL => licenses' = licenses
       /\ \A i \in Ids(licenses) :
            licenses[i].subscription_id = NULL =>
              (i \in Ids(licenses') /\ licenses'[i] = licenses[i])
    ]_vars

\* A renewal without subscription reference was received while an active
\* manual License and a cancelled paid License are stored
C29_Witness ==
  /\ reply.op = "invoice.payment_succeeded" /\ reply.subscription = NULL
  /\ reply.status = 200
  /\ \E i \in Ids(licenses) :
       licenses[i].subscription_id = NULL /\ licenses[i].status = "active"
  /\ \E i \in Ids(licenses) :
       licenses[i].subscription_id # NULL /\ licenses[i].status = "cancelled"

\* C30: the clients checked out of the pool are exactly those of the validate
\* requests that are between their pool.connect() and their answer: every
\* handler has released its client, once, when its request completes, whether
\* it returned early, answered or failed; with no request in flight no client
\* is held.
C30_ClientsReleased == clients = InFlight

\* A validate request has returned early after its expiry write, the last
\* webhook delivery or manual creation failed, and no client is held
C30_Witness ==
  /\ clients = 0
  /\ reply.fault
  /\ \E r \in Slots : req[r].pc = "done" /\ req[r].error = "License has expired"

====
